---- MODULE Spec2Model ----
(***************************************************************************)
(* A model of the WRF domain plotting helpers: find_side, _lambert_ticks,  *)
(* add_equal_axes, mark_inset, process_data and the colour-scale choice of *)
(* plot_domain.  Each helper has its own specification (SpecSide,          *)
(* SpecTicks, SpecAxes, SpecInset, SpecRead, SpecDomain); the variables of *)
(* the other helpers stay at their idle values.                            *)
(***************************************************************************)
EXTENDS Integers, Sequences, FiniteSets

VARIABLES
    fsLine,      \* find_side: the line_string argument, a sequence of points
    fsSide,      \* find_side: the side argument
    fsResult,    \* find_side: what the call produced ("pending" before it)
    ltOutline,   \* _lambert_ticks: vertices of ax.spines['geo'], a line string
    ltTicks,     \* _lambert_ticks: the ticks argument
    ltLocation,  \* _lambert_ticks: the tick_location argument
    ltExtractor, \* _lambert_ticks: the tick_extractor argument
    ltIsect,     \* how each tick's projected graticule line meets the side
    ltResult,    \* _lambert_ticks: what the call produced
    ltTrace,     \* the calls the body made on ax and on its callbacks, in order
    ltAxis,      \* the ticks and labels set on the axes by lambert_x/yticks
    figAxes,     \* the figure: the position boxes of its axes, in order added
    aeCall,      \* add_equal_axes: the arguments of the last call
    aeResult,    \* add_equal_axes: what the last call produced
    miAxes,      \* for each axes, its patches list (indexes into miPatches)
    miPatches,   \* every patch object made so far
    miCall,      \* mark_inset: the arguments of the call
    miLog,       \* mark_inset: the add_patch calls it made, in order
    miResult,    \* mark_inset: the tuple it returned
    rdFiles,     \* geo_em.d01.nc and geo_em.d02.nc: readable or not, contents
    rdMain,      \* process_data: where the calling thread is
    rdTask,      \* the two get_data tasks: position and local variables
    rdFuture,    \* future_d01 and future_d02: state and value
    rdDone,      \* the tasks in the order they completed
    rdRet,       \* process_data: the tuple it returned
    pdHgt,       \* plot_domain: the hgt array, a cell being a height or NaN
    pdUseMesh,   \* plot_domain: the use_pcolormesh argument
    pdResult     \* plot_domain: the extend chosen and the plot call made

sideVars == <<fsLine, fsSide, fsResult>>
tickVars == <<ltOutline, ltTicks, ltLocation, ltExtractor, ltIsect, ltResult,
              ltTrace, ltAxis>>
axesVars == <<figAxes, aeCall, aeResult>>
insetVars == <<miAxes, miPatches, miCall, miLog, miResult>>
readVars == <<rdFiles, rdMain, rdTask, rdFuture, rdDone, rdRet>>
domainVars == <<pdHgt, pdUseMesh, pdResult>>

vars == <<fsLine, fsSide, fsResult,
          ltOutline, ltTicks, ltLocation, ltExtractor, ltIsect, ltResult,
          ltTrace, ltAxis,
          figAxes, aeCall, aeResult,
          miAxes, miPatches, miCall, miLog, miResult,
          rdFiles, rdMain, rdTask, rdFuture, rdDone, rdRet,
          pdHgt, pdUseMesh, pdResult>>

None == "None"

MinOf(S) == CHOOSE m \in S : \A v \in S : m <= v
MaxOf(S) == CHOOSE m \in S : \A v \in S : v <= m

\* v is the least (greatest) element of S.
IsLeast(v, S) == v \in S /\ \A w \in S : v <= w
IsGreatest(v, S) == v \in S /\ \A w \in S : w <= v

SeqsUpTo(S, lo, hi) == UNION {[1..n -> S] : n \in lo..hi}

(***************************************************************************)
(* The idle values: what a helper's variables hold in the specifications   *)
(* of the other helpers, and before its own call.                          *)
(***************************************************************************)

Pending == [status |-> "pending", value |-> None]

IdleSide ==
    /\ fsLine = <<>>
    /\ fsSide = None
    /\ fsResult = Pending

PendingTicks == [status |-> "pending", locations |-> None, labels |-> None]
NoAxisTicks == [axis |-> None, ticks |-> None, labels |-> None]

IdleTicks ==
    /\ ltOutline = <<>>
    /\ ltTicks = <<>>
    /\ ltLocation = None
    /\ ltExtractor = None
    /\ ltIsect = <<>>
    /\ ltResult = PendingTicks
    /\ ltTrace = <<>>
    /\ ltAxis = NoAxisTicks

NoCall == [ax |-> {}, loc |-> None, pad |-> 0, width |-> 0, before |-> <<>>,
           calls |-> 0]
PendingAxes == [status |-> "pending", ax_new |-> None]

IdleAxes ==
    /\ figAxes = <<>>
    /\ aeCall = NoCall
    /\ aeResult = PendingAxes

NoInsetCall == [parent |-> 0, inset |-> 0, loc1a |-> 0, loc1b |-> 0,
                loc2a |-> 0, loc2b |-> 0, before |-> <<>>]

IdleInset ==
    /\ miAxes = <<>>
    /\ miPatches = <<>>
    /\ miCall = NoInsetCall
    /\ miLog = <<>>
    /\ miResult = <<>>

NoPlot == [status |-> "pending", extend |-> None, plot |-> None,
           norm_extend |-> None, contourf_extend |-> None]

IdleDomain ==
    /\ pdHgt = <<>>
    /\ pdUseMesh = FALSE
    /\ pdResult = NoPlot

IdleRead ==
    /\ rdFiles = <<>>
    /\ rdMain = "idle"
    /\ rdTask = <<>>
    /\ rdFuture = <<>>
    /\ rdDone = <<>>
    /\ rdRet = <<>>

(***************************************************************************)
(* find_side (src/find_side.py)                                            *)
(***************************************************************************)

\* Largest coordinate of the grid the line strings are drawn on.
MaxCoord == 2
\* Largest number of points of a line string.
MaxPts == 2

Points == (0..MaxCoord) \X (0..MaxCoord)

valid_sides == {"left", "right", "bottom", "top"}

\* The sides a caller may pass: the four valid ones and one that is not.
SideInputs == valid_sides \cup {"center"}

\* line_string.bounds: (minx, miny, maxx, maxy) over the coordinates.
bounds(ls) ==
    LET xs == {ls[i][1] : i \in DOMAIN ls}
        ys == {ls[i][2] : i \in DOMAIN ls}
    IN  <<MinOf(xs), MinOf(ys), MaxOf(xs), MaxOf(ys)>>

side_points_top_low(b, side) ==
    LET minx == b[1]  miny == b[2]  maxx == b[3]  maxy == b[4]
    IN  CASE side = "left"   -> <<<<minx, miny>>, <<minx, maxy>>>>
          [] side = "right"  -> <<<<maxx, miny>>, <<maxx, maxy>>>>
          [] side = "bottom" -> <<<<minx, miny>>, <<maxx, miny>>>>
          [] side = "top"    -> <<<<minx, miny>>, <<maxx, maxy>>>>

\* The side_points table, indexed by the side.
side_points(b, side) ==
    LET minx == b[1]  miny == b[2]  maxx == b[3]  maxy == b[4]
    IN  CASE side = "left"   -> <<<<minx, miny>>, <<minx, maxy>>>>
          [] side = "right"  -> <<<<maxx, miny>>, <<maxx, maxy>>>>
          [] side = "bottom" -> <<<<minx, miny>>, <<maxx, miny>>>>
          [] side = "top"    -> <<<<minx, maxy>>, <<maxx, maxy>>>>

find_side(line_string, side) ==
    IF side \notin valid_sides
    THEN [status |-> "ValueError", value |-> None]
    ELSE [status |-> "returned", value |-> side_points(bounds(line_string), side)]

InitSideVars ==
    /\ fsLine \in SeqsUpTo(Points, 2, MaxPts)
    /\ fsSide \in SideInputs
    /\ fsResult = Pending

FindSideCall ==
    /\ fsResult.status = "pending"
    /\ fsResult' = find_side(fsLine, fsSide)
    /\ UNCHANGED <<fsLine, fsSide>>
    /\ UNCHANGED <<tickVars, axesVars, insetVars, readVars, domainVars>>

InitSide == InitSideVars /\ IdleTicks /\ IdleAxes /\ IdleInset /\ IdleRead /\ IdleDomain
NextSide == FindSideCall
SpecSide == InitSide /\ [][NextSide]_vars

\* The coordinates of the points of line_string.
FsXs == {fsLine[i][1] : i \in DOMAIN fsLine}
FsYs == {fsLine[i][2] : i \in DOMAIN fsLine}
OnRectBoundary(p) ==
    /\ \E a, b \in FsXs : a <= p[1] /\ p[1] <= b
    /\ \E a, b \in FsYs : a <= p[2] /\ p[2] <= b
    /\ \/ IsLeast(p[1], FsXs) \/ IsGreatest(p[1], FsXs)
       \/ IsLeast(p[2], FsYs) \/ IsGreatest(p[2], FsYs)

\* C4: find_side returns the requested side of the bounding rectangle of
\* line_string: for 'left' the segment from (minx,miny) to (minx,maxy), for
\* 'right' from (maxx,miny) to (maxx,maxy), for 'bottom' from (minx,miny) to
\* (maxx,miny), for 'top' from (minx,maxy) to (maxx,maxy), where minx, miny,
\* maxx, maxy are the least and greatest coordinates of the points of
\* line_string; both end points lie on the boundary of that rectangle.
FindSideReturnsSide ==
    (fsResult.status = "returned") =>
        LET p == fsResult.value[1]
            q == fsResult.value[2]
        IN  /\ Len(fsResult.value) = 2
            /\ fsSide = "left" =>
                  /\ IsLeast(p[1], FsXs) /\ q[1] = p[1]
                  /\ IsLeast(p[2], FsYs) /\ IsGreatest(q[2], FsYs)
            /\ fsSide = "right" =>
                  /\ IsGreatest(p[1], FsXs) /\ q[1] = p[1]
                  /\ IsLeast(p[2], FsYs) /\ IsGreatest(q[2], FsYs)
            /\ fsSide = "bottom" =>
                  /\ IsLeast(p[2], FsYs) /\ q[2] = p[2]
                  /\ IsLeast(p[1], FsXs) /\ IsGreatest(q[1], FsXs)
            /\ fsSide = "top" =>
                  /\ IsGreatest(p[2], FsYs) /\ q[2] = p[2]
                  /\ IsLeast(p[1], FsXs) /\ IsGreatest(q[1], FsXs)
            /\ OnRectBoundary(p) /\ OnRectBoundary(q)
            /\ fsSide \in valid_sides

\* A 'top' call on a line string whose bounding rectangle has height and width.
FindSideTopReached ==
    /\ fsResult.status = "returned"
    /\ fsSide = "top"
    /\ Cardinality(FsXs) > 1
    /\ Cardinality(FsYs) > 1

(***************************************************************************)
(* _lambert_ticks, lambert_xticks, lambert_yticks (src/lambert_ticks.py)   *)
(***************************************************************************)

\* Largest number of ticks passed in one call.
MaxTicks == 2
\* Number of distinct tick values (degrees of longitude or latitude).
NTickVals == 2

TickVals == 1..NTickVals

valid_locations == {"left", "bottom"}

Extractors == {"extract_x", "extract_y"}

\* The closed rectangular outline of the axes: five vertices.
RectOutline(x0, y0, x1, y1) ==
    <<<<x0, y0>>, <<x1, y0>>, <<x1, y1>>, <<x0, y1>>, <<x0, y0>>>>

Outlines == {RectOutline(0, 0, 2, 1), RectOutline(1, 0, 3, 2)}

\* The ways a projected graticule line can meet the side: not at all, in one
\* point (either end of the side), along the side, or in several points.
IsectKinds == {"empty", "first", "last", "overlap", "multi"}

\* axis.intersection(line): the shapely geometry for one tick.
intersection(axis, kind) ==
    CASE kind = "empty"   -> [type |-> "Empty", coords |-> <<>>]
      [] kind = "first"   -> [type |-> "Point", coords |-> <<axis[1]>>]
      [] kind = "last"    -> [type |-> "Point", coords |-> <<axis[2]>>]
      [] kind = "overlap" -> [type |-> "LineString", coords |-> axis]
      [] kind = "multi"   -> [type |-> "MultiPoint", coords |-> axis]

\* bool(locs): an empty geometry is falsy.
truthy(locs) == locs.type # "Empty"

\* locs.xy: the x and the y coordinate arrays; a multi-part geometry has none.
has_xy(locs) == locs.type \in {"Point", "LineString"}
xy(locs) ==
    <<[i \in DOMAIN locs.coords |-> locs.coords[i][1]],
      [i \in DOMAIN locs.coords |-> locs.coords[i][2]]>>

extract_x(c) == c[1]
extract_y(c) == c[2]

tick_extractor(name, c) ==
    IF name = "extract_x" THEN extract_x(c) ELSE extract_y(c)

Ev(op, arg) == <<op, arg>>

\* An entry of tick_locations: Python's None, or a coordinate.
NoneLoc == <<>>
Coord(v) == <<v>>

\* One pass of the loop body for ticks[i], from the loop state st.
loop_body(st, axis, tick, isect, extractor) ==
    LET locs == intersection(axis, isect[tick])
        made == st.trace \o <<Ev("line_constructor", tick),
                               Ev("transform_points", tick),
                               Ev("intersection", tick)>>
    IN  IF ~truthy(locs)
        THEN [st EXCEPT !.trace = made,
                        !.tick_locations = Append(@, NoneLoc)]
        ELSE IF ~has_xy(locs)
        THEN [st EXCEPT !.trace = made, !.raised = TRUE]
        ELSE [st EXCEPT !.trace = Append(made, Ev("tick_extractor", tick)),
                        !.tick_locations =
                            Append(@, Coord(tick_extractor(extractor, xy(locs))[1]))]

RECURSIVE tick_loop(_, _, _, _, _, _)
tick_loop(i, st, axis, ticks, isect, extractor) ==
    IF i > Len(ticks) \/ st.raised
    THEN st
    ELSE tick_loop(i + 1, loop_body(st, axis, ticks[i], isect, extractor),
                   axis, ticks, isect, extractor)

\* The filter left out: every tick is kept, visible or not.
visible_ticks_unfiltered(tick_locations, tick_labels) ==
    [i \in DOMAIN tick_locations |-> <<tick_locations[i], tick_labels[i]>>]

\* [(tick, label) for tick, label in zip(...) if tick is not None]
RECURSIVE visible_ticks(_, _)
visible_ticks(tick_locations, tick_labels) ==
    IF tick_locations = <<>> \/ tick_labels = <<>>
    THEN <<>>
    ELSE LET rest == visible_ticks(Tail(tick_locations), Tail(tick_labels))
         IN  IF Head(tick_locations) # NoneLoc
             THEN <<<<Head(tick_locations), Head(tick_labels)>>>> \o rest
             ELSE rest

\* The check left out: any tick_location goes on to find_side.
location_unchecked(tick_location) == TRUE

\* if tick_location not in valid_locations: raise ValueError
location_ok(tick_location) == tick_location \in valid_locations

\* The whole of _lambert_ticks: its outcome and the calls it made.
lambert_ticks(outline, ticks, tick_location, isect, extractor) ==
    IF ~location_ok(tick_location)
    THEN [status |-> "ValueError", locations |-> None, labels |-> None,
          trace |-> <<>>]
    ELSE
    LET side == find_side(outline, tick_location)
        t0   == <<Ev("spines", None), Ev("find_side", tick_location)>>
    IN  IF side.status # "returned"
        THEN [status |-> "ValueError", locations |-> None, labels |-> None,
              trace |-> t0]
        ELSE
        LET st0 == [trace |-> Append(t0, Ev("get_extent", None)),
                    tick_locations |-> <<>>, raised |-> FALSE]
            st  == tick_loop(1, st0, side.value, ticks, isect, extractor)
            vis == visible_ticks(st.tick_locations, ticks)
        IN  IF st.raised
            THEN [status |-> "NotImplementedError", locations |-> None,
                  labels |-> None, trace |-> st.trace]
            ELSE [status |-> "returned",
                  locations |-> [i \in DOMAIN vis |-> vis[i][1]],
                  labels |-> [i \in DOMAIN vis |-> vis[i][2]],
                  trace |-> st.trace]

InitTickVars ==
    /\ ltOutline \in Outlines
    /\ ltTicks \in SeqsUpTo(TickVals, 0, MaxTicks)
    /\ ltLocation \in SideInputs
    /\ ltExtractor \in Extractors
    /\ ltIsect \in [TickVals -> IsectKinds]
    /\ ltResult = PendingTicks
    /\ ltTrace = <<>>
    /\ ltAxis = NoAxisTicks

Outcome(r) ==
    [status |-> r.status, locations |-> r.locations, labels |-> r.labels]

\* A direct call of _lambert_ticks with the arguments chosen in Init.
LambertTicksCall ==
    /\ ltResult.status = "pending"
    /\ LET r == lambert_ticks(ltOutline, ltTicks, ltLocation, ltIsect, ltExtractor)
       IN  /\ ltResult' = Outcome(r)
           /\ ltTrace' = r.trace
    /\ UNCHANGED <<ltOutline, ltTicks, ltLocation, ltExtractor, ltIsect, ltAxis>>
    /\ UNCHANGED <<sideVars, axesVars, insetVars, readVars, domainVars>>

\* The label the axis formatter makes of a tick value.
formatter(which, v) == <<which, v>>

\* lambert_xticks: ticks on the bottom side, x coordinates.
LambertXticksCall ==
    /\ ltResult.status = "pending"
    /\ ltLocation = "bottom" /\ ltExtractor = "extract_x"
    /\ LET r == lambert_ticks(ltOutline, ltTicks, "bottom", ltIsect, "extract_x")
       IN  /\ ltResult' = Outcome(r)
           /\ ltTrace' = r.trace
           /\ ltAxis' = IF r.status = "returned"
                        THEN [axis |-> "xaxis", ticks |-> r.locations,
                              labels |-> [i \in DOMAIN r.labels |->
                                            formatter("xaxis", r.labels[i])]]
                        ELSE ltAxis
    /\ UNCHANGED <<ltOutline, ltTicks, ltLocation, ltExtractor, ltIsect>>
    /\ UNCHANGED <<sideVars, axesVars, insetVars, readVars, domainVars>>

\* lambert_yticks: ticks on the left side, y coordinates.
LambertYticksCall ==
    /\ ltResult.status = "pending"
    /\ ltLocation = "left" /\ ltExtractor = "extract_y"
    /\ LET r == lambert_ticks(ltOutline, ltTicks, "left", ltIsect, "extract_y")
       IN  /\ ltResult' = Outcome(r)
           /\ ltTrace' = r.trace
           /\ ltAxis' = IF r.status = "returned"
                        THEN [axis |-> "yaxis", ticks |-> r.locations,
                              labels |-> [i \in DOMAIN r.labels |->
                                            formatter("yaxis", r.labels[i])]]
                        ELSE ltAxis
    /\ UNCHANGED <<ltOutline, ltTicks, ltLocation, ltExtractor, ltIsect>>
    /\ UNCHANGED <<sideVars, axesVars, insetVars, readVars, domainVars>>

InitTicks == InitTickVars /\ IdleSide /\ IdleAxes /\ IdleInset /\ IdleRead /\ IdleDomain
NextTicks == LambertTicksCall \/ LambertXticksCall \/ LambertYticksCall
SpecTicks == InitTicks /\ [][NextTicks]_vars

\* The side of the outline the ticks go on, from the extent of its vertices.
LtXs == {ltOutline[i][1] : i \in DOMAIN ltOutline}
LtYs == {ltOutline[i][2] : i \in DOMAIN ltOutline}
LtSideStart == <<MinOf(LtXs), MinOf(LtYs)>>
LtSideEnd ==
    IF ltLocation = "left" THEN <<MinOf(LtXs), MaxOf(LtYs)>>
                           ELSE <<MaxOf(LtXs), MinOf(LtYs)>>
\* The first point of the intersection of tick t's line with the side.
LtFirstPoint(t) == IF ltIsect[t] = "last" THEN LtSideEnd ELSE LtSideStart
LtFirstCoord(t) ==
    IF ltExtractor = "extract_x" THEN LtFirstPoint(t)[1] ELSE LtFirstPoint(t)[2]
LtIntersects(t) == ltIsect[t] # "empty"

\* C2: _lambert_ticks returns only visible ticks: when it returns, locations
\* and labels have equal length, labels is the order-preserving subsequence of
\* ticks whose graticule line has a non-empty intersection with the chosen
\* side, locations[i] is the first coordinate extracted from the intersection
\* for labels[i], no location is None, and when no tick intersects both
\* lists are empty.
LambertTicksOnlyVisible ==
    (ltResult.status = "returned") =>
        /\ ltLocation \in valid_locations
        /\ Len(ltResult.locations) = Len(ltResult.labels)
        /\ ltResult.labels = SelectSeq(ltTicks, LtIntersects)
        /\ \A i \in DOMAIN ltResult.locations :
              /\ ltResult.locations[i] # NoneLoc
              /\ ltResult.locations[i] = Coord(LtFirstCoord(ltResult.labels[i]))
        /\ (\A i \in DOMAIN ltTicks : ~LtIntersects(ltTicks[i])) =>
              (ltResult.locations = <<>> /\ ltResult.labels = <<>>)

\* Two ticks were passed, the first is dropped and the second is kept.
LambertTicksDropReached ==
    /\ ltResult.status = "returned"
    /\ Len(ltTicks) = 2
    /\ ~LtIntersects(ltTicks[1])
    /\ ltIsect[ltTicks[2]] = "last"
    /\ ltResult.labels = <<ltTicks[2]>>

\* C7: a tick_location other than 'left' or 'bottom' makes _lambert_ticks
\* raise ValueError before it reads the outline, the extent or the projection
\* and before it calls line_constructor or tick_extractor; every side that
\* find_side receives from _lambert_ticks is valid, and find_side's own
\* ValueError is never raised through _lambert_ticks.
LambertTicksRejectsLocation ==
    (ltResult.status # "pending") =>
        /\ (ltLocation \notin valid_locations) =>
              (ltResult.status = "ValueError" /\ ltTrace = <<>>)
        /\ (ltLocation \in valid_locations) => (ltResult.status # "ValueError")
        /\ \A i \in DOMAIN ltTrace :
              (ltTrace[i][1] = "find_side") => (ltTrace[i][2] \in valid_sides)
        /\ (ltResult.status = "ValueError") => (ltTrace = <<>>)

\* 'right', a side find_side accepts, was rejected by _lambert_ticks.
LambertTicksRightRejected ==
    /\ ltLocation = "right"
    /\ ltResult.status = "ValueError"
    /\ ltTicks # <<>>

(***************************************************************************)
(* add_equal_axes (src/add_equal_axes.py).  Lengths are in hundredths of   *)
(* the figure's width and height.                                          *)
(***************************************************************************)

\* Largest number of calls of add_equal_axes on one figure.
MaxCalls == 1

Bbox(x0, y0, x1, y1) == [x0 |-> x0, y0 |-> y0, x1 |-> x1, y1 |-> y1]

\* The axes a figure starts with, one or two of them:
\* fig.add_axes([0.09, 0.15, 0.4, 0.7]) and another that sticks out of it.
InitialBoxes == {Bbox(9, 15, 49, 85), Bbox(20, 30, 60, 50)}

\* The pad and width arguments tried (0.03 and 0.4 in the program).
Pads == {-2, 0, 3}
Widths == {0, 40}

LocInputs == {"left", "right", "bottom", "top", "center"}

Min2(a, b) == IF a <= b THEN a ELSE b
Max2(a, b) == IF a >= b THEN a ELSE b

\* Bbox.union: the smallest box holding every box of bboxes.
BboxUnion(bboxes) ==
    Bbox(MinOf({Min2(b.x0, b.x1) : b \in bboxes}),
         MinOf({Min2(b.y0, b.y1) : b \in bboxes}),
         MaxOf({Max2(b.x0, b.x1) : b \in bboxes}),
         MaxOf({Max2(b.y0, b.y1) : b \in bboxes}))

\* The else branch taken as 'right' instead of raising.
new_extents_else_right(bbox, loc, pad, width) ==
    CASE loc = "left" ->
           [ok |-> TRUE,
            ext |-> Bbox(bbox.x0 - pad - width, bbox.y0, bbox.x0 - pad, bbox.y1)]
      [] loc = "bottom" ->
           [ok |-> TRUE,
            ext |-> Bbox(bbox.x0, bbox.y0 - pad - width, bbox.x1, bbox.y0 - pad)]
      [] loc = "top" ->
           [ok |-> TRUE,
            ext |-> Bbox(bbox.x0, bbox.y1 + pad, bbox.x1, bbox.y1 + pad + width)]
      [] OTHER ->
           [ok |-> TRUE,
            ext |-> Bbox(bbox.x1 + pad, bbox.y0, bbox.x1 + pad + width, bbox.y1)]

\* 'left' measured from the wrong edge of the original box.
new_extents_left_from_x1(bbox, loc, pad, width) ==
    CASE loc = "left" ->
           [ok |-> TRUE,
            ext |-> Bbox(bbox.x1 - pad - width, bbox.y0, bbox.x1 - pad, bbox.y1)]
      [] loc = "right" ->
           [ok |-> TRUE,
            ext |-> Bbox(bbox.x1 + pad, bbox.y0, bbox.x1 + pad + width, bbox.y1)]
      [] loc = "bottom" ->
           [ok |-> TRUE,
            ext |-> Bbox(bbox.x0, bbox.y0 - pad - width, bbox.x1, bbox.y0 - pad)]
      [] loc = "top" ->
           [ok |-> TRUE,
            ext |-> Bbox(bbox.x0, bbox.y1 + pad, bbox.x1, bbox.y1 + pad + width)]
      [] OTHER -> [ok |-> FALSE, ext |-> None]

\* The if/elif chain on loc: the extents of the new box, or the raise.
new_extents(bbox, loc, pad, width) ==
    CASE loc = "left" ->
           [ok |-> TRUE,
            ext |-> Bbox(bbox.x0 - pad - width, bbox.y0, bbox.x0 - pad, bbox.y1)]
      [] loc = "right" ->
           [ok |-> TRUE,
            ext |-> Bbox(bbox.x1 + pad, bbox.y0, bbox.x1 + pad + width, bbox.y1)]
      [] loc = "bottom" ->
           [ok |-> TRUE,
            ext |-> Bbox(bbox.x0, bbox.y0 - pad - width, bbox.x1, bbox.y0 - pad)]
      [] loc = "top" ->
           [ok |-> TRUE,
            ext |-> Bbox(bbox.x0, bbox.y1 + pad, bbox.x1, bbox.y1 + pad + width)]
      [] OTHER -> [ok |-> FALSE, ext |-> None]

\* fig.add_axes(new_bbox): the new axes is the last of the figure's axes.
add_axes(fig, rect) == Append(fig, rect)

\* The whole call: ax is a set of indexes into the figure's axes.
add_equal_axes(fig, ax, loc, pad, width) ==
    LET bbox == BboxUnion({fig[i] : i \in ax})
        new  == new_extents(bbox, loc, pad, width)
    IN  IF ~new.ok
        THEN [status |-> "ValueError", fig |-> fig, ax_new |-> None]
        ELSE [status |-> "returned", fig |-> add_axes(fig, new.ext),
              ax_new |-> new.ext]

InitAxesVars ==
    /\ figAxes \in SeqsUpTo(InitialBoxes, 1, 2)
    /\ aeCall = NoCall
    /\ aeResult = PendingAxes

AddEqualAxesCall ==
    /\ aeCall.calls < MaxCalls
    /\ \E ax \in (SUBSET DOMAIN figAxes) \ {{}}, loc \in LocInputs,
          pad \in Pads, width \in Widths :
          LET r == add_equal_axes(figAxes, ax, loc, pad, width)
          IN  /\ figAxes' = r.fig
              /\ aeResult' = [status |-> r.status, ax_new |-> r.ax_new]
              /\ aeCall' = [ax |-> ax, loc |-> loc, pad |-> pad,
                            width |-> width, before |-> figAxes,
                            calls |-> aeCall.calls + 1]
    /\ UNCHANGED <<sideVars, tickVars, insetVars, readVars, domainVars>>

InitAxes == InitAxesVars /\ IdleSide /\ IdleTicks /\ IdleInset /\ IdleRead /\ IdleDomain
NextAxes == AddEqualAxesCall
SpecAxes == InitAxes /\ [][NextAxes]_vars

\* The union B of the boxes passed in ax, stated edge by edge.
AeBoxes == {aeCall.before[i] : i \in aeCall.ax}
AeIsUnion(B) ==
    /\ IsLeast(B.x0, {b.x0 : b \in AeBoxes})
    /\ IsLeast(B.y0, {b.y0 : b \in AeBoxes})
    /\ IsGreatest(B.x1, {b.x1 : b \in AeBoxes})
    /\ IsGreatest(B.y1, {b.y1 : b \in AeBoxes})
AeNew == figAxes[Len(figAxes)]
\* The open interiors of boxes a and b share a point.
InteriorsOverlap(a, b) ==
    /\ Max2(a.x0, b.x0) < Min2(a.x1, b.x1)
    /\ Max2(a.y0, b.y0) < Min2(a.y1, b.y1)

\* C1: add_equal_axes places the new axes next to the union B of the boxes
\* of ax: 'left' gives [B.x0-pad-width, B.x0-pad] x [B.y0, B.y1], 'right'
\* [B.x1+pad, B.x1+pad+width] x [B.y0, B.y1], 'bottom' [B.x0, B.x1] x
\* [B.y0-pad-width, B.y0-pad], 'top' [B.x0, B.x1] x [B.y1+pad, B.y1+pad+width];
\* so the new box has B's extent in the shared dimension, size width in the
\* other, lies exactly pad away from B, and for pad >= 0 and width >= 0 its
\* interior does not overlap B.
AddEqualAxesAdjacent ==
    (aeResult.status = "returned") =>
        \E x0 \in {b.x0 : b \in AeBoxes}, y0 \in {b.y0 : b \in AeBoxes},
           x1 \in {b.x1 : b \in AeBoxes}, y1 \in {b.y1 : b \in AeBoxes} :
            LET B == Bbox(x0, y0, x1, y1)
                N == AeNew
                pad == aeCall.pad
                width == aeCall.width
            IN  /\ AeIsUnion(B)
                /\ figAxes = Append(aeCall.before, N)
                /\ aeResult.ax_new = N
                /\ aeCall.loc = "left" =>
                     /\ N = Bbox(B.x0 - pad - width, B.y0, B.x0 - pad, B.y1)
                     /\ B.x0 - N.x1 = pad
                /\ aeCall.loc = "right" =>
                     /\ N = Bbox(B.x1 + pad, B.y0, B.x1 + pad + width, B.y1)
                     /\ N.x0 - B.x1 = pad
                /\ aeCall.loc = "bottom" =>
                     /\ N = Bbox(B.x0, B.y0 - pad - width, B.x1, B.y0 - pad)
                     /\ B.y0 - N.y1 = pad
                /\ aeCall.loc = "top" =>
                     /\ N = Bbox(B.x0, B.y1 + pad, B.x1, B.y1 + pad + width)
                     /\ N.y0 - B.y1 = pad
                /\ aeCall.loc \in {"left", "right"} =>
                     /\ N.y0 = B.y0 /\ N.y1 = B.y1
                     /\ N.x1 - N.x0 = width
                /\ aeCall.loc \in {"bottom", "top"} =>
                     /\ N.x0 = B.x0 /\ N.x1 = B.x1
                     /\ N.y1 - N.y0 = width
                /\ (pad >= 0 /\ width >= 0) => ~InteriorsOverlap(N, B)
                /\ aeCall.loc \in {"left", "right", "bottom", "top"}

\* A 'left' call on two axes at once, with the program's pad and width.
AddEqualAxesLeftOfTwoReached ==
    /\ aeResult.status = "returned"
    /\ aeCall.loc = "left"
    /\ Cardinality(aeCall.ax) = 2
    /\ aeCall.pad = 3
    /\ aeCall.width = 40

\* C6: add_equal_axes with a loc that is not 'left', 'right', 'bottom' or
\* 'top' raises ValueError and leaves the figure unchanged: no axes is added
\* and none is returned.
AddEqualAxesRejectsLoc ==
    (aeResult.status # "pending"
        /\ aeCall.loc \notin {"left", "right", "bottom", "top"}) =>
        /\ aeResult.status = "ValueError"
        /\ figAxes = aeCall.before
        /\ aeResult.ax_new = None

\* A call with loc 'center' on a figure that holds two axes.
AddEqualAxesCenterReached ==
    /\ aeCall.loc = "center"
    /\ aeResult.status = "ValueError"
    /\ Len(aeCall.before) = 2

(***************************************************************************)
(* mark_inset (src/mark_inset.py)                                          *)
(***************************************************************************)

\* Number of axes in the figure.
NAxes == 2
\* Largest number of patches an axes holds before the call.
MaxPrior == 1
\* The corner codes of a box: 1 upper right, 2 upper left, 3 lower left,
\* 4 lower right.
NCorners == 4

AxesIds == 1..NAxes
Corners == 1..NCorners

\* The boxes the patches refer to.
viewLim_in_transData(inset, parent) == <<"TransformedBbox", inset, parent>>
axes_bbox(a) == <<"bbox", a, 0>>
NoBbox == <<"none", 0, 0>>

\* A new patch is clipped until told otherwise.
OtherPatch ==
    [kind |-> "Patch", bbox1 |-> NoBbox, loc1 |-> 0, bbox2 |-> NoBbox,
     loc2 |-> 0, clip_on |-> TRUE]
BboxPatch(bbox) ==
    [kind |-> "BboxPatch", bbox1 |-> bbox, loc1 |-> 0, bbox2 |-> NoBbox,
     loc2 |-> 0, clip_on |-> TRUE]
BboxConnector(bbox1, bbox2, loc1, loc2) ==
    [kind |-> "BboxConnector", bbox1 |-> bbox1, loc1 |-> loc1,
     bbox2 |-> bbox2, loc2 |-> loc2, clip_on |-> TRUE]

\* The scene: the axes' patches lists, the patch objects, the add_patch log.
\* axes.add_patch(p): p is made an object and appended to the axes' patches.
add_patch(sc, a, p) ==
    LET id == Len(sc.patches) + 1
    IN  [axes    |-> [sc.axes EXCEPT ![a] = Append(@, id)],
         patches |-> Append(sc.patches, p),
         log     |-> Append(sc.log, <<a, id>>)]

set_clip_on(sc, id, b) ==
    [sc EXCEPT !.patches[id].clip_on = b]

\* connector1 and connector2 as constructed.
connectors(inset_bbox, rect, loc1a, loc1b, loc2a, loc2b) ==
    <<BboxConnector(inset_bbox, rect, loc1a, loc1b),
      BboxConnector(inset_bbox, rect, loc2a, loc2b)>>

\* Clipping switched off on the first connector only.
unclip_first_only(sc, c1, c2) == set_clip_on(sc, c1, FALSE)

\* connector1.set_clip_on(False); connector2.set_clip_on(False)
unclip(sc, c1, c2) == set_clip_on(set_clip_on(sc, c1, FALSE), c2, FALSE)

\* The whole call, from the scene sc with an empty log.
mark_inset(sc, parent_axes, inset_axes, loc1a, loc1b, loc2a, loc2b) ==
    LET rect == viewLim_in_transData(inset_axes, parent_axes)
        s1   == add_patch(sc, parent_axes, BboxPatch(rect))
        rect_patch == Len(s1.patches)
        cs   == connectors(axes_bbox(inset_axes), rect, loc1a, loc1b, loc2a, loc2b)
        s2   == add_patch(s1, inset_axes, cs[1])
        connector1 == Len(s2.patches)
        s3   == add_patch(s2, inset_axes, cs[2])
        connector2 == Len(s3.patches)
        s4   == unclip(s3, connector1, connector2)
    IN  [scene |-> s4, ret |-> <<rect_patch, connector1, connector2>>]

\* Axes a holds prior[a] patches before the call, numbered axes by axes.
RECURSIVE PriorBefore(_, _)
PriorBefore(prior, a) == IF a = 1 THEN 0 ELSE PriorBefore(prior, a - 1) + prior[a - 1]
PriorTotal(prior) == PriorBefore(prior, NAxes + 1)

InitInsetVars ==
    /\ \E prior \in [AxesIds -> 0..MaxPrior] :
          /\ miAxes = [a \in AxesIds |->
                         [i \in 1..prior[a] |-> PriorBefore(prior, a) + i]]
          /\ miPatches = [i \in 1..PriorTotal(prior) |-> OtherPatch]
    /\ miCall = NoInsetCall
    /\ miLog = <<>>
    /\ miResult = <<>>

MarkInsetCall ==
    /\ miResult = <<>>
    /\ \E parent_axes \in AxesIds, inset_axes \in AxesIds,
          loc1a \in Corners, loc1b \in Corners,
          loc2a \in Corners, loc2b \in Corners :
          LET r == mark_inset([axes |-> miAxes, patches |-> miPatches, log |-> <<>>],
                              parent_axes, inset_axes, loc1a, loc1b, loc2a, loc2b)
          IN  /\ miAxes' = r.scene.axes
              /\ miPatches' = r.scene.patches
              /\ miLog' = r.scene.log
              /\ miResult' = r.ret
              /\ miCall' = [parent |-> parent_axes, inset |-> inset_axes,
                            loc1a |-> loc1a, loc1b |-> loc1b,
                            loc2a |-> loc2a, loc2b |-> loc2b,
                            before |-> miAxes]
    /\ UNCHANGED <<sideVars, tickVars, axesVars, readVars, domainVars>>

InitInset == InitInsetVars /\ IdleSide /\ IdleTicks /\ IdleAxes /\ IdleRead /\ IdleDomain
NextInset == MarkInsetCall
SpecInset == InitInset /\ [][NextInset]_vars

MiPriorPatches == UNION {{miCall.before[a][i] : i \in DOMAIN miCall.before[a]} :
                         a \in DOMAIN miCall.before}
\* What the call appended to the patches list of axes a.
MiAddedTo(a) == SubSeq(miAxes[a], Len(miCall.before[a]) + 1, Len(miAxes[a]))

\* C5: one call of mark_inset adds exactly one patch, the rectangle, to
\* parent_axes and exactly two, the connectors, to inset_axes, in the order
\* rectangle, connector1, connector2; both connectors have clipping off when
\* the call returns; connector1 joins corner loc1a of the inset box to corner
\* loc1b of the rectangle, connector2 joins loc2a to loc2b; the tuple returned
\* is (rectangle, connector1, connector2), the three objects that were added.
MarkInsetAddsThree ==
    (miResult # <<>>) =>
        LET r  == miResult[1]
            c1 == miResult[2]
            c2 == miResult[3]
            p  == miCall.parent
            n  == miCall.inset
            rect == <<"TransformedBbox", n, p>>
        IN  /\ Len(miResult) = 3
            /\ Cardinality({r, c1, c2}) = 3
            /\ {r, c1, c2} \cap MiPriorPatches = {}
            /\ miLog = <<<<p, r>>, <<n, c1>>, <<n, c2>>>>
            /\ \A a \in AxesIds :
                  /\ Len(miAxes[a]) >= Len(miCall.before[a])
                  /\ SubSeq(miAxes[a], 1, Len(miCall.before[a])) = miCall.before[a]
            /\ (p # n) => /\ MiAddedTo(p) = <<r>>
                          /\ MiAddedTo(n) = <<c1, c2>>
            /\ (p = n) => MiAddedTo(p) = <<r, c1, c2>>
            /\ \A a \in AxesIds \ {p, n} : MiAddedTo(a) = <<>>
            /\ miPatches[r].kind = "BboxPatch"
            /\ miPatches[r].bbox1 = rect
            /\ miPatches[c1].kind = "BboxConnector"
            /\ miPatches[c2].kind = "BboxConnector"
            /\ ~miPatches[c1].clip_on
            /\ ~miPatches[c2].clip_on
            /\ miPatches[c1].bbox1 = <<"bbox", n, 0>>
            /\ miPatches[c1].loc1 = miCall.loc1a
            /\ miPatches[c1].bbox2 = rect
            /\ miPatches[c1].loc2 = miCall.loc1b
            /\ miPatches[c2].bbox1 = <<"bbox", n, 0>>
            /\ miPatches[c2].loc1 = miCall.loc2a
            /\ miPatches[c2].bbox2 = rect
            /\ miPatches[c2].loc2 = miCall.loc2b

\* The program's call, mark_inset(ax, ax_inset, loc1a=2, loc1b=1, loc2a=3,
\* loc2b=4), on two different axes that each held a patch already.
MarkInsetProgramCallReached ==
    /\ miResult # <<>>
    /\ miCall.parent # miCall.inset
    /\ miCall.loc1a = 2 /\ miCall.loc1b = 1
    /\ miCall.loc2a = 3 /\ miCall.loc2b = 4
    /\ \A a \in AxesIds : Len(miCall.before[a]) = 1

(***************************************************************************)
(* get_data and process_data (src/read_data.py).  Task 1 reads             *)
(* geo_em.d01.nc and task 2 reads geo_em.d02.nc, each on its own thread    *)
(* of the pool; the calling thread submits both and waits for them.        *)
(***************************************************************************)

\* Number of cells of a height array.
NCells == 2

D01 == 1
D02 == 2
Tasks == {D01, D02}

\* The heights a cell of HGT_M may hold, some below sea level.
CellHeights == {-5, 0, 7}

\* What file f holds: its lon, lat and projection are its own.
FileContents(f, readable, hgt) ==
    [readable |-> readable, lon |-> <<"lon", f>>, lat |-> <<"lat", f>>,
     proj |-> <<"proj", f>>, hgt |-> hgt]

NoLocals == [pc |-> "unsubmitted", lon |-> <<>>, lat |-> <<>>, proj |-> <<>>,
             hgt |-> <<>>]
NoFuture == [state |-> "none", value |-> <<>>]

\* np.maximum(hgt, 0), cell by cell.
maximum0(hgt) == [i \in DOMAIN hgt |-> Max2(hgt[i], 0)]

\* The projection of the second file returned instead of the first's.
result_tuple_proj_d02(r1, r2) ==
    <<r1[1], r1[2], r2[3], r1[4], r2[1], r2[2], r2[4]>>

\* lon, lat, proj, hgt = future_d01.result();
\* lon_1, lat_1, _, hgt_1 = future_d02.result();
\* return lon, lat, proj, hgt, lon_1, lat_1, hgt_1
result_tuple(r1, r2) ==
    <<r1[1], r1[2], r1[3], r1[4], r2[1], r2[2], r2[4]>>

InitReadVars ==
    /\ \E ok1 \in BOOLEAN, ok2 \in BOOLEAN,
          h1 \in [1..NCells -> CellHeights], h2 \in [1..NCells -> CellHeights] :
          rdFiles = [f \in Tasks |-> IF f = D01 THEN FileContents(f, ok1, h1)
                                              ELSE FileContents(f, ok2, h2)]
    /\ rdMain = "submit_d01"
    /\ rdTask = [k \in Tasks |-> NoLocals]
    /\ rdFuture = [k \in Tasks |-> NoFuture]
    /\ rdDone = <<>>
    /\ rdRet = <<>>

\* executor.submit(get_data, file): the future is pending, a worker starts.
Submit(k) ==
    /\ rdMain = (IF k = D01 THEN "submit_d01" ELSE "submit_d02")
    /\ rdMain' = (IF k = D01 THEN "submit_d02" ELSE "result_d01")
    /\ rdFuture' = [rdFuture EXCEPT ![k].state = "pending"]
    /\ rdTask' = [rdTask EXCEPT ![k].pc = "open"]
    /\ UNCHANGED <<rdFiles, rdDone, rdRet>>
    /\ UNCHANGED <<sideVars, tickVars, axesVars, insetVars, domainVars>>

\* with Dataset(file) as f: the file opens, or the task ends in an exception.
TaskOpen(k) ==
    /\ rdTask[k].pc = "open"
    /\ IF rdFiles[k].readable
       THEN /\ rdTask' = [rdTask EXCEPT ![k].pc = "lon"]
            /\ UNCHANGED <<rdFuture, rdDone>>
       ELSE /\ rdTask' = [rdTask EXCEPT ![k].pc = "done"]
            /\ rdFuture' = [rdFuture EXCEPT ![k].state = "exception"]
            /\ rdDone' = Append(rdDone, k)
    /\ UNCHANGED <<rdFiles, rdMain, rdRet>>
    /\ UNCHANGED <<sideVars, tickVars, axesVars, insetVars, domainVars>>

\* lon = getvar(f, 'lon'); lat = getvar(f, 'lat'); proj = get_cartopy(f);
\* hgt = getvar(f, 'HGT_M'): one read per step.
TaskRead(k) ==
    /\ rdTask[k].pc \in {"lon", "lat", "proj", "hgt"}
    /\ rdTask' =
         CASE rdTask[k].pc = "lon" ->
                [rdTask EXCEPT ![k].lon = rdFiles[k].lon, ![k].pc = "lat"]
           [] rdTask[k].pc = "lat" ->
                [rdTask EXCEPT ![k].lat = rdFiles[k].lat, ![k].pc = "proj"]
           [] rdTask[k].pc = "proj" ->
                [rdTask EXCEPT ![k].proj = rdFiles[k].proj, ![k].pc = "hgt"]
           [] rdTask[k].pc = "hgt" ->
                [rdTask EXCEPT ![k].hgt = rdFiles[k].hgt, ![k].pc = "maximum"]
    /\ UNCHANGED <<rdFiles, rdMain, rdFuture, rdDone, rdRet>>
    /\ UNCHANGED <<sideVars, tickVars, axesVars, insetVars, domainVars>>

\* hgt = np.maximum(hgt, 0)
TaskMaximum(k) ==
    /\ rdTask[k].pc = "maximum"
    /\ rdTask' = [rdTask EXCEPT ![k].hgt = maximum0(@), ![k].pc = "return"]
    /\ UNCHANGED <<rdFiles, rdMain, rdFuture, rdDone, rdRet>>
    /\ UNCHANGED <<sideVars, tickVars, axesVars, insetVars, domainVars>>

\* return lon, lat, proj, hgt: the worker sets the future's result.
TaskReturn(k) ==
    /\ rdTask[k].pc = "return"
    /\ rdTask' = [rdTask EXCEPT ![k].pc = "done"]
    /\ rdFuture' = [rdFuture EXCEPT
                      ![k] = [state |-> "finished",
                              value |-> <<rdTask[k].lon, rdTask[k].lat,
                                          rdTask[k].proj, rdTask[k].hgt>>]]
    /\ rdDone' = Append(rdDone, k)
    /\ UNCHANGED <<rdFiles, rdMain, rdRet>>
    /\ UNCHANGED <<sideVars, tickVars, axesVars, insetVars, domainVars>>

\* future.result(): blocks until the future is done, then hands over its
\* value or raises its exception.
Result(k) ==
    /\ rdMain = (IF k = D01 THEN "result_d01" ELSE "result_d02")
    /\ rdFuture[k].state \in {"finished", "exception"}
    /\ rdMain' = IF rdFuture[k].state = "exception" THEN "exit_raising"
                 ELSE IF k = D01 THEN "result_d02" ELSE "exit"
    /\ UNCHANGED <<rdFiles, rdTask, rdFuture, rdDone, rdRet>>
    /\ UNCHANGED <<sideVars, tickVars, axesVars, insetVars, domainVars>>

\* Leaving the with block: shutdown(wait=True) joins the workers, then the
\* function returns its tuple or the exception goes on to the caller.
ExitExecutor ==
    /\ rdMain \in {"exit", "exit_raising"}
    /\ \A k \in Tasks : rdTask[k].pc = "done"
    /\ IF rdMain = "exit"
       THEN /\ rdMain' = "returned"
            /\ rdRet' = result_tuple(rdFuture[D01].value, rdFuture[D02].value)
       ELSE /\ rdMain' = "raised"
            /\ UNCHANGED rdRet
    /\ UNCHANGED <<rdFiles, rdTask, rdFuture, rdDone>>
    /\ UNCHANGED <<sideVars, tickVars, axesVars, insetVars, domainVars>>

InitRead == InitReadVars /\ IdleSide /\ IdleTicks /\ IdleAxes /\ IdleInset /\ IdleDomain
NextRead ==
    \/ \E k \in Tasks : Submit(k)
    \/ \E k \in Tasks : TaskOpen(k)
    \/ \E k \in Tasks : TaskRead(k)
    \/ \E k \in Tasks : TaskMaximum(k)
    \/ \E k \in Tasks : TaskReturn(k)
    \/ \E k \in Tasks : Result(k)
    \/ ExitExecutor
SpecRead == InitRead /\ [][NextRead]_vars

\* The heights of file f with the cells below zero raised to zero.
RdHeights(f) ==
    [i \in DOMAIN rdFiles[f].hgt |->
        IF rdFiles[f].hgt[i] < 0 THEN 0 ELSE rdFiles[f].hgt[i]]

\* C3: when both reads succeed process_data returns (lon, lat, proj, hgt of
\* d01, then lon, lat, hgt of d02) whatever the interleaving and the order
\* in which the two get_data tasks complete: the first four elements come
\* from the d01 file, the last three from the d02 file, the projection is
\* d01's, and the function returns only after both tasks have completed.
ProcessDataReturnsBoth ==
    (rdMain = "returned") =>
        /\ rdRet = <<rdFiles[1].lon, rdFiles[1].lat, rdFiles[1].proj, RdHeights(1),
                     rdFiles[2].lon, rdFiles[2].lat, RdHeights(2)>>
        /\ \A k \in Tasks : rdTask[k].pc = "done" /\ rdFuture[k].state = "finished"
        /\ Len(rdDone) = 2

\* process_data returned although the d02 task completed before the d01
\* task, with heights below zero in both files.
ProcessDataD02FirstReached ==
    /\ rdMain = "returned"
    /\ rdDone = <<2, 1>>
    /\ \E i \in DOMAIN rdFiles[1].hgt : rdFiles[1].hgt[i] < 0
    /\ \E i \in DOMAIN rdFiles[2].hgt : rdFiles[2].hgt[i] < 0

(***************************************************************************)
(* plot_domain: the choice of the colour scale's extend                    *)
(* (src/study_area.py).  Heights are whole metres.                         *)
(***************************************************************************)

\* Largest number of cells of the hgt array.
MaxCells == 2

\* The highest contour level, np.arange(0, 5000 + 100, 100)[-1].
TopLevel == 5000
\* The lowest contour level.
BottomLevel == 0

\* A cell: a height, or NaN.
NaN == <<>>
Num(v) == <<v>>
IsNaN(c) == c = NaN

CellValues == {Num(-1), Num(0), Num(2500), Num(5000), Num(5001), NaN}

Numbers(hgt) == {hgt[i][1] : i \in {j \in DOMAIN hgt : ~IsNaN(hgt[j])}}

\* np.nanmin and np.nanmax: NaN cells are skipped; all NaN gives NaN.
nanmin(hgt) == IF Numbers(hgt) = {} THEN NaN ELSE Num(MinOf(Numbers(hgt)))
nanmax(hgt) == IF Numbers(hgt) = {} THEN NaN ELSE Num(MaxOf(Numbers(hgt)))

\* a > b and a < b on floats: false when a is NaN.
gt(a, b) == ~IsNaN(a) /\ a[1] > b
lt(a, b) == ~IsNaN(a) /\ a[1] < b

ge(a, b) == ~IsNaN(a) /\ a[1] >= b

\* The top level itself taken as out of range.
choose_extend_top_inclusive(hgt_min, hgt_max) ==
    IF ge(hgt_max, TopLevel) /\ lt(hgt_min, BottomLevel) THEN "both"
    ELSE IF ge(hgt_max, TopLevel) THEN "max"
    ELSE IF lt(hgt_min, BottomLevel) THEN "min"
    ELSE None

\* The if/elif chain on hgt_min and hgt_max.
choose_extend(hgt_min, hgt_max) ==
    IF gt(hgt_max, TopLevel) /\ lt(hgt_min, BottomLevel) THEN "both"
    ELSE IF gt(hgt_max, TopLevel) THEN "max"
    ELSE IF lt(hgt_min, BottomLevel) THEN "min"
    ELSE None

\* The part of plot_domain that picks extend and makes the plot call.
plot_domain(hgt, use_pcolormesh) ==
    LET hgt_min == nanmin(hgt)
        hgt_max == nanmax(hgt)
        extend  == choose_extend(hgt_min, hgt_max)
    IN  IF use_pcolormesh
        THEN [status |-> "returned", extend |-> extend, plot |-> "QuadMesh",
              norm_extend |-> extend, contourf_extend |-> "not called"]
        ELSE [status |-> "returned", extend |-> extend, plot |-> "QuadContourSet",
              norm_extend |-> "not called", contourf_extend |-> extend]

InitDomainVars ==
    /\ pdHgt \in SeqsUpTo(CellValues, 1, MaxCells)
    /\ pdUseMesh \in BOOLEAN
    /\ pdResult = NoPlot

PlotDomainCall ==
    /\ pdResult.status = "pending"
    /\ pdResult' = plot_domain(pdHgt, pdUseMesh)
    /\ UNCHANGED <<pdHgt, pdUseMesh>>
    /\ UNCHANGED <<sideVars, tickVars, axesVars, insetVars, readVars>>

InitDomain ==
    InitDomainVars /\ IdleSide /\ IdleTicks /\ IdleAxes /\ IdleInset /\ IdleRead
NextDomain == PlotDomainCall
SpecDomain == InitDomain /\ [][NextDomain]_vars

\* The least and the greatest height among the cells that hold one.
PdHeights == {pdHgt[i][1] : i \in {j \in DOMAIN pdHgt : pdHgt[j] # <<>>}}
PdMin == CHOOSE v \in PdHeights : \A w \in PdHeights : v <= w
PdMax == CHOOSE v \in PdHeights : \A w \in PdHeights : w <= v
\* The extend handed to the plot call that was made.
PdUsed == IF pdUseMesh THEN pdResult.norm_extend ELSE pdResult.contourf_extend

====
